---------------------------- MODULE Spec2Model ----------------------------
(***************************************************************************)
(* Data-access interfaces of nipype/interfaces/io.py: DataSource,          *)
(* DataSink, DataGrabber and FreeSurferSource.                             *)
(*                                                                         *)
(* Python strings are sequences of one-character strings, so that join,   *)
(* split, '%' formatting and glob matching are computed character by       *)
(* character.  The filesystem seen by glob is `listing`, the existing      *)
(* files in the order the directory enumeration yields them; the           *)
(* filesystem written by DataSink is the pair (dirs, files).               *)
(***************************************************************************)
EXTENDS Integers, Sequences, FiniteSets, TLC

VARIABLES
    inputs,      \* the interface's inputs Bunch
    env,         \* value of the SUBJECTS_DIR environment variable
    listing,     \* existing files, in the order os.listdir enumerates them
    globbed,     \* the patterns handed to glob.glob, per output key
    outputs,     \* the outputs Bunch being built / returned
    pc,          \* position in the interface's run
    raised,      \* the exception that left the run, "none" if none did
    dirs,        \* DataSink filesystem: existing directories
    files,       \* DataSink filesystem: existing regular files
    todo,        \* DataSink.run: inputs not yet visited by the loop of line 235
    srcs,        \* DataSink.run: sources of the current key not yet visited
    k_cur,       \* DataSink.run: the input whose sources are being copied
    tempoutdir,  \* DataSink.run: destination directory of the current key
    copied       \* DataSink.run: every copy made, [key, src, dst]

sinkvars == <<dirs, files, todo, srcs, k_cur, tempoutdir, copied>>

vars == <<inputs, env, listing, globbed, outputs, pc, raised, sinkvars>>

(***************************************************************************)
(* Bounds                                                                  *)
(***************************************************************************)
MaxFiles == 3     \* files present in the filesystem read by glob
MaxEntries == 2   \* (run identifiers, field) tuples of one subject_info entry
MaxRuns == 2      \* run identifiers of one subject_info entry, all tuples together
MaxKeys == 2      \* deposit key-paths given to one DataSink

(***************************************************************************)
(* Python values and string primitives                                     *)
(***************************************************************************)
None == <<"<None>">>

Truthy(x) == x # None /\ x # << >>

Slash == "/"

Star == "*"

StartsWith(s, c) == Len(s) > 0 /\ s[1] = c

EndsWith(s, c) == Len(s) > 0 /\ s[Len(s)] = c

\* os.path.join(a, b) of posixpath; AttributeError when an operand is None
AttributeError == <<"<AttributeError>">>

TypeError == <<"<TypeError>">>

IsError(x) == x = AttributeError \/ x = TypeError

Join(a, b) ==
    IF IsError(a) THEN a
    ELSE IF IsError(b) THEN b
    ELSE IF a = None \/ b = None THEN AttributeError
    ELSE IF StartsWith(b, Slash) THEN b
    ELSE IF a = << >> \/ EndsWith(a, Slash) THEN a \o b
    ELSE a \o <<Slash>> \o b

\* str(x) as '%s' renders it
Str(x) == IF x = None THEN <<"N","o","n","e">> ELSE x

\* number of %s conversions in a template
RECURSIVE Placeholders(_)
Placeholders(t) ==
    IF Len(t) < 2 THEN 0
    ELSE IF t[1] = "%" /\ t[2] = "s" THEN 1 + Placeholders(SubSeq(t, 3, Len(t)))
    ELSE Placeholders(Tail(t))

\* template % tuple(args): TypeError unless one argument per conversion
RECURSIVE Fill(_, _)
Fill(t, args) ==
    IF Len(t) < 2 THEN t
    ELSE IF t[1] = "%" /\ t[2] = "s"
         THEN Str(Head(args)) \o Fill(SubSeq(t, 3, Len(t)), Tail(args))
    ELSE <<t[1]>> \o Fill(Tail(t), args)

Format(t, args) ==
    IF Placeholders(t) # Len(args) THEN TypeError ELSE Fill(t, args)

\* str.split(c)
RECURSIVE Split(_, _)
Split(s, c) ==
    IF \A i \in 1..Len(s) : s[i] # c THEN <<s>>
    ELSE LET i == CHOOSE j \in 1..Len(s) :
                      s[j] = c /\ \A k \in 1..(j-1) : s[k] # c
         IN  <<SubSeq(s, 1, i-1)>> \o Split(SubSeq(s, i+1, Len(s)), c)

\* fnmatch of a whole path against a pattern whose only magic is '*';
\* '*' does not cross a directory separator
RECURSIVE Match(_, _)
Match(p, s) ==
    IF p = << >> THEN s = << >>
    ELSE IF p[1] = Star
         THEN Match(Tail(p), s)
              \/ (s # << >> /\ s[1] # Slash /\ Match(p, Tail(s)))
    ELSE s # << >> /\ p[1] = s[1] /\ Match(Tail(p), Tail(s))

\* glob.glob(pattern): the matching paths in enumeration order, unsorted
SelectMatching(pattern, ls) == SelectSeq(ls, LAMBDA f : Match(pattern, f))

Glob(pattern) == SelectMatching(pattern, listing)

\* nipype.utils.filemanip.list_to_filename: one path alone, several as a list
list_to_filename(filelist) ==
    IF Len(filelist) = 1 THEN [kind |-> "path", v |-> filelist[1]]
    ELSE [kind |-> "list", v |-> filelist]

\* nipype.utils.filemanip.filename_to_list: a string becomes a one-element list
filename_to_list(value) ==
    IF value.kind = "path" THEN <<value.v>> ELSE value.v

NoValue == [kind |-> "none", v |-> << >>]

\* the paths an output value holds
PathsOf(val) ==
    IF val.kind = "path" THEN <<val.v>>
    ELSE IF val.kind = "list" THEN val.v
    ELSE << >>

\* injective sequences over U of length at most n: a directory enumeration
Enumerations(U, n) ==
    { s \in UNION { [1..k -> U] : k \in 0..n } :
        \A i, j \in 1..Len(s) : i # j => s[i] # s[j] }

(***************************************************************************)
(* FreeSurferSource                                                        *)
(***************************************************************************)
mri == <<"m","r","i">>

surf == <<"s","u","r","f">>

label == <<"l","a","b","e","l">>

annot == <<"a","n","n","o","t">>

ribbon == <<"r","i","b","b","o","n">>

curv == <<"c","u","r","v">>

\* the class attribute dirmap, entry by entry
DirmapTable ==
    { <<<<"T","1">>, mri>>, <<<<"a","s","e","g">>, mri>>, <<<<"b","r","a","i","n">>, mri>>,
      <<<<"b","r","a","i","n","m","a","s","k">>, mri>>, <<<<"f","i","l","l","e","d">>, mri>>, <<<<"n","o","r","m">>, mri>>,
      <<<<"n","u">>, mri>>, <<<<"o","r","i","g">>, mri>>, <<<<"r","a","w","a","v","g">>, mri>>,
      <<ribbon, mri>>, <<<<"w","m">>, mri>>, <<<<"w","m","p","a","r","c">>, mri>>,
      <<curv, surf>>, <<<<"i","n","f","l","a","t","e","d">>, surf>>, <<<<"p","i","a","l">>, surf>>,
      <<<<"s","m","o","o","t","h","w","m">>, surf>>, <<<<"s","p","h","e","r","e">>, surf>>, <<<<"s","u","l","c">>, surf>>,
      <<<<"t","h","i","c","k","n","e","s","s">>, surf>>, <<<<"v","o","l","u","m","e">>, surf>>, <<<<"w","h","i","t","e">>, surf>>,
      <<label, label>>, <<annot, label>>,
      <<<<"a","p","a","r","c","+","a","s","e","g">>, mri>>, <<<<"s","p","h","e","r","e",".","r","e","g">>, surf>> }

Keys == { e[1] : e \in DirmapTable }

dirmap(key) == (CHOOSE e \in DirmapTable : e[1] = key)[2]

globsuffix(key) ==
    IF key \in {annot, label} THEN << >>
    ELSE IF dirmap(key) = mri THEN <<".","m","g","z">>
    ELSE << >>

\* variant: the '*h.' prefix is never narrowed to '*' for ribbon and label
globprefix_no_override(key, hemi) ==
    IF key = ribbon \/ dirmap(key) \in {surf, label} THEN
        (IF Truthy(hemi) THEN hemi \o <<".">> ELSE <<"*","h",".">>)
        \o (IF key = annot THEN <<"*">> ELSE << >>)
    ELSE << >>

\* variant: annot takes the '*' override that ribbon and label take
globprefix_annot_override(key, hemi) ==
    IF key = ribbon \/ dirmap(key) \in {surf, label} THEN
        (IF Truthy(hemi) THEN hemi \o <<".">>
         ELSE IF key = ribbon \/ key = label \/ key = annot THEN <<"*">>
         ELSE <<"*","h",".">>)
        \o (IF key = annot THEN <<"*">> ELSE << >>)
    ELSE << >>

globprefix(key, hemi) ==
    IF key = ribbon \/ dirmap(key) \in {surf, label} THEN
        (IF Truthy(hemi) THEN hemi \o <<".">>
         ELSE IF key = ribbon \/ key = label THEN <<"*">>
         ELSE <<"*","h",".">>)
        \o (IF key = annot THEN <<"*">> ELSE << >>)
    ELSE << >>

globpattern(path, key, hemi) ==
    Join(Join(path, dirmap(key)), globprefix(key, hemi) \o key \o globsuffix(key))

\* _get_files(path, key): the value stored under key
get_files(path, key, hemi) ==
    LET outfiles == Glob(globpattern(path, key, hemi))
    IN  IF outfiles # << >> THEN list_to_filename(outfiles) ELSE NoValue

\* variant: the environment variable wins over the explicit input
SubjectsDir_env_first(explicit, environ) ==
    IF Truthy(environ) THEN environ ELSE explicit

\* lines 465-467: the explicit input, else the environment variable
SubjectsDir(explicit, environ) ==
    IF Truthy(explicit) THEN explicit ELSE environ

FSUniverse ==
    { <<"/","d","a","t","a","/","s","1","/","s","u","r","f","/","l","h",".","c","u","r","v">>, <<"/","d","a","t","a","/","s","1","/","s","u","r","f","/","r","h",".","c","u","r","v">>,
      <<"/","d","a","t","a","/","s","1","/","m","r","i","/","r","i","b","b","o","n",".","m","g","z">>, <<"/","d","a","t","a","/","s","1","/","m","r","i","/","l","h",".","r","i","b","b","o","n",".","m","g","z">>,
      <<"/","d","a","t","a","/","s","1","/","l","a","b","e","l","/","l","h",".","a","p","a","r","c",".","a","n","n","o","t">>, <<"/","e","n","v","/","s","1","/","m","r","i","/","T","1",".","m","g","z">> }

FSInputs ==
    [ subjects_dir : {None, << >>, <<"/","d","a","t","a">>},
      subject_id   : {None, <<"s","1">>},
      hemi         : {None, <<"l","h">>, <<"r","h">>} ]

Idle ==
    /\ dirs = {} /\ files = {} /\ todo = {} /\ srcs = << >>
    /\ k_cur = None /\ tempoutdir = None /\ copied = {}

InitFS ==
    /\ inputs \in FSInputs
    /\ env \in {None, <<"/","e","n","v">>}
    /\ listing \in Enumerations(FSUniverse, MaxFiles)
    /\ globbed = [k \in {} |-> None]
    /\ outputs = [k \in Keys |-> NoValue]
    /\ pc = "ready"
    /\ raised = "none"
    /\ Idle

\* lines 466-471: neither raise is taken
FSReturns(inp, environ) ==
    /\ Truthy(SubjectsDir(inp.subjects_dir, environ))
    /\ ~IsError(Join(SubjectsDir(inp.subjects_dir, environ), inp.subject_id))

\* FreeSurferSource.aggregate_outputs, raising for want of a subjects_dir
FSRaiseNoSubjectsDir ==
    /\ pc = "ready"
    /\ ~Truthy(SubjectsDir(inputs.subjects_dir, env))
    /\ pc' = "raised"
    /\ raised' = "Exception: SUBJECTS_DIR"
    /\ UNCHANGED <<inputs, env, listing, globbed, outputs, sinkvars>>

\* FreeSurferSource.aggregate_outputs, os.path.join failing on subject_id
FSRaiseJoin ==
    /\ pc = "ready"
    /\ Truthy(SubjectsDir(inputs.subjects_dir, env))
    /\ IsError(Join(SubjectsDir(inputs.subjects_dir, env), inputs.subject_id))
    /\ pc' = "raised"
    /\ raised' = "AttributeError"
    /\ UNCHANGED <<inputs, env, listing, globbed, outputs, sinkvars>>

\* FreeSurferSource.aggregate_outputs returning the outputs
FSAggregate ==
    /\ pc = "ready"
    /\ FSReturns(inputs, env)
    /\ LET subject_path == Join(SubjectsDir(inputs.subjects_dir, env),
                                inputs.subject_id)
       IN  /\ globbed' = [k \in Keys |-> globpattern(subject_path, k, inputs.hemi)]
           /\ outputs' = [k \in Keys |-> get_files(subject_path, k, inputs.hemi)]
    /\ pc' = "done"
    /\ UNCHANGED <<inputs, env, listing, raised, sinkvars>>

NextFS == FSRaiseNoSubjectsDir \/ FSRaiseJoin \/ FSAggregate

SpecFS == InitFS /\ [][NextFS]_vars


(***************************************************************************)
(* DataGrabber                                                             *)
(***************************************************************************)
file_list == <<"f","i","l","e","_","l","i","s","t">>

RECURSIVE NamedArgs(_, _)
\* lines 325-328: the truthy input values named by template_argnames
NamedArgs(names, inp) ==
    IF names = << >> THEN << >>
    ELSE (IF Truthy(inp[Head(names)]) THEN <<inp[Head(names)]>> ELSE << >>)
         \o NamedArgs(Tail(names), inp)

\* variant: every named input is appended, set or not
TemplateArgs_keep_unset(inp) ==
    (IF Len(inp.template_argtuple) > 0 THEN inp.template_argtuple ELSE << >>)
    \o [n \in 1..Len(inp.template_argnames) |-> inp[inp.template_argnames[n]]]

\* lines 321-328: args
TemplateArgs(inp) ==
    (IF Len(inp.template_argtuple) > 0 THEN inp.template_argtuple ELSE << >>)
    \o (IF Len(inp.template_argnames) > 0
        THEN NamedArgs(inp.template_argnames, inp) ELSE << >>)

\* lines 329-331: the template after formatting, or TypeError
FilledTemplate(inp) ==
    IF TemplateArgs(inp) # << >>
    THEN Format(inp.file_template, TemplateArgs(inp))
    ELSE inp.file_template

DGUniverse == { <<"/","d","/","a",".","n","i","i">>, <<"/","d","/","b",".","n","i","i">>, <<"/","d","/","a","b",".","n","i","i">>, <<"/","d","/","%","s",".","n","i","i">> }

\* An unset template_argtuple or template_argnames is the empty tuple here:
\* the truth tests of lines 322 and 324 treat None and () alike.
DGInputs ==
    [ file_template     : { <<"/","d","/","*",".","n","i","i">>, <<"/","d","/","%","s",".","n","i","i">>, <<"/","d","/","%","s","%","s",".","n","i","i">> },
      template_argtuple : { << >>, <<<<"a">>>>, <<<<"a">>, <<"b">>>> },
      template_argnames : { << >>, <<"arg1">>, <<"arg1", "arg2">> },
      arg1              : { None, <<"a">> },
      arg2              : { None, << >>, <<"b">> } ]

InitDG ==
    /\ inputs \in DGInputs
    /\ env = None
    /\ listing \in Enumerations(DGUniverse, MaxFiles)
    /\ globbed = [k \in {} |-> None]
    /\ outputs = [k \in {file_list} |-> NoValue]
    /\ pc = "ready"
    /\ raised = "none"
    /\ Idle

\* DataGrabber.aggregate_outputs, the '%' of line 331 raising
DGRaiseFormat ==
    /\ pc = "ready"
    /\ IsError(FilledTemplate(inputs))
    /\ pc' = "raised"
    /\ raised' = "TypeError"
    /\ UNCHANGED <<inputs, env, listing, globbed, outputs, sinkvars>>

\* DataGrabber.aggregate_outputs returning file_list
DGAggregate ==
    /\ pc = "ready"
    /\ ~IsError(FilledTemplate(inputs))
    /\ globbed' = [k \in {file_list} |-> FilledTemplate(inputs)]
    /\ outputs' = [k \in {file_list} |->
                      list_to_filename(Glob(FilledTemplate(inputs)))]
    /\ pc' = "done"
    /\ UNCHANGED <<inputs, env, listing, raised, sinkvars>>

NextDG == DGRaiseFormat \/ DGAggregate

SpecDG == InitDG /\ [][NextDG]_vars

(***************************************************************************)
(* DataSource                                                              *)
(***************************************************************************)
Cwd == <<"/","c","w","d">>

\* os.path.abspath of a path free of '.', '..' and doubled separators
Abspath(p) == IF StartsWith(p, Slash) THEN p ELSE Join(Cwd, p)

NotProvided == <<"<Exception: Subject directory not provided>">>

\* lines 117-126: the subject directory, or the exception leaving the method
SubjectDirectory(inp) ==
    LET subjdir ==
          IF inp.subject_directory = None
          THEN Join(inp.base_directory,
                    IF inp.subject_template # None
                    THEN Format(inp.subject_template, <<inp.subject_id>>)
                    ELSE inp.subject_id)
          ELSE inp.subject_directory
    IN  IF subjdir = None THEN NotProvided ELSE subjdir

ErrorName(e) ==
    IF e = AttributeError THEN "AttributeError"
    ELSE IF e = TypeError THEN "TypeError"
    ELSE "Exception: Subject directory not provided"

\* lines 138-140: the files found for one run identifier
RunFiles(subjdir, tmpl, i) == Glob(Abspath(Join(subjdir, Format(tmpl, <<i>>))))

\* variant: a run identifier without files contributes nothing and is no error
MissingRuns_none(subjdir, tmpl, idx) == {}

\* lines 141-143: the run identifiers whose pattern matches no file
MissingRuns(subjdir, tmpl, idx) ==
    { n \in 1..Len(idx) : Len(RunFiles(subjdir, tmpl, idx[n])) = 0 }

RECURSIVE Found(_, _, _)
\* lines 137-144: the files of the run identifiers, extended in their order
Found(subjdir, tmpl, idx) ==
    IF idx = << >> THEN << >>
    ELSE RunFiles(subjdir, tmpl, Head(idx)) \o Found(subjdir, tmpl, Tail(idx))

\* lines 136-146: the value an output field ends with
FieldValue(subjdir, tmpl, idx) ==
    IF idx # << >> THEN list_to_filename(Found(subjdir, tmpl, idx))
    ELSE [kind |-> "list", v |-> << >>]

\* line 135: the last tuple naming the field decides it, setattr replacing
\* what an earlier tuple stored
Fields(subjdir, tmpl, info) ==
    [ t \in { info[n].type : n \in 1..Len(info) } |->
        LET last == CHOOSE n \in 1..Len(info) :
                        /\ info[n].type = t
                        /\ \A m \in (n+1)..Len(info) : info[m].type # t
        IN  FieldValue(subjdir, tmpl, info[last].idx) ]

NoOutputs == [returned |-> FALSE]

\* DataSource.aggregate_outputs: the exception raised, or the outputs returned
DSResult(inp) ==
    LET subjdir == SubjectDirectory(inp)
    IN  IF IsError(subjdir) \/ subjdir = NotProvided
        THEN [err |-> ErrorName(subjdir), out |-> NoOutputs]
        ELSE IF ~inp.subject_info.given
        THEN [err |-> "Exception: Subject info not provided", out |-> NoOutputs]
        ELSE IF inp.subject_id \notin DOMAIN inp.subject_info.dict
        THEN [err |-> "KeyError", out |-> NoOutputs]
        ELSE LET info == inp.subject_info.dict[inp.subject_id]
             IN  IF \E n \in 1..Len(info) :
                       MissingRuns(subjdir, inp.file_template, info[n].idx) # {}
                 THEN [err |-> "IOError", out |-> NoOutputs]
                 ELSE [err |-> "none",
                       out |-> [returned |-> TRUE,
                                subject_id |-> inp.subject_id,
                                subject_directory |-> subjdir,
                                fields |-> Fields(subjdir, inp.file_template, info)]]

RunIds == { <<"f","3">>, <<"f","5">> }

InfoEntries ==
    [ idx  : UNION { [1..n -> RunIds] : n \in 0..MaxRuns },
      type : { "func", "struct" } ]

RECURSIVE TotalRuns(_)
TotalRuns(info) ==
    IF info = << >> THEN 0 ELSE Len(Head(info).idx) + TotalRuns(Tail(info))

InfoLists ==
    { info \in UNION { [1..n -> InfoEntries] : n \in 0..MaxEntries } :
        TotalRuns(info) <= MaxRuns }

DSUniverse == { <<"/","b","/","s","1","/","f","3",".","n","i","i">>, <<"/","b","/","s","1","/","a","f","3",".","n","i","i">>, <<"/","b","/","s","1","/","f","5",".","n","i","i">> }

DSInputs ==
    [ base_directory    : { None, <<"/","b">> },
      subject_template  : { None, <<"s","u","b","-","%","s">> },
      subject_id        : { None, <<"s","1">>, <<"s","2">> },
      subject_directory : { None },
      file_template     : { <<"*","%","s",".","n","i","i">> },
      subject_info      : { [given |-> FALSE, dict |-> << >>] }
                          \cup { [given |-> TRUE, dict |-> [k \in {<<"s","1">>} |-> info]] :
                                   info \in InfoLists } ]

InitDS ==
    /\ inputs \in DSInputs
    /\ env = None
    /\ listing \in Enumerations(DSUniverse, MaxFiles)
    /\ globbed = [k \in {} |-> None]
    /\ outputs = NoOutputs
    /\ pc = "ready"
    /\ raised = "none"
    /\ Idle

\* DataSource.aggregate_outputs leaving by an exception
DSRaise ==
    /\ pc = "ready"
    /\ DSResult(inputs).err # "none"
    /\ pc' = "raised"
    /\ raised' = DSResult(inputs).err
    /\ UNCHANGED <<inputs, env, listing, globbed, outputs, sinkvars>>

\* DataSource.aggregate_outputs returning the outputs
DSAggregate ==
    /\ pc = "ready"
    /\ DSResult(inputs).err = "none"
    /\ outputs' = DSResult(inputs).out
    /\ pc' = "done"
    /\ UNCHANGED <<inputs, env, listing, globbed, raised, sinkvars>>

NextDS == DSRaise \/ DSAggregate

SpecDS == InitDS /\ [][NextDS]_vars

(***************************************************************************)
(* DataSink                                                                *)
(***************************************************************************)
\* line 199: input_keys, the names of the five configuration inputs
input_keys ==
    { <<"b","a","s","e","_","d","i","r","e","c","t","o","r","y">>, <<"p","a","r","a","m","e","t","e","r","i","z","a","t","i","o","n">>, <<"s","u","b","j","e","c","t","_","d","i","r","e","c","t","o","r","y">>,
      <<"s","u","b","j","e","c","t","_","t","e","m","p","l","a","t","e">>, <<"s","u","b","j","e","c","t","_","i","d">> }

ConfigValue(inp, k) ==
    IF k = <<"b","a","s","e","_","d","i","r","e","c","t","o","r","y">> THEN inp.base_directory
    ELSE IF k = <<"p","a","r","a","m","e","t","e","r","i","z","a","t","i","o","n">> THEN inp.parameterization
    ELSE IF k = <<"s","u","b","j","e","c","t","_","d","i","r","e","c","t","o","r","y">> THEN inp.subject_directory
    ELSE IF k = <<"s","u","b","j","e","c","t","_","t","e","m","p","l","a","t","e">> THEN inp.subject_template
    ELSE inp.subject_id

\* the names self.inputs.iteritems() yields
InputNames(inp) == input_keys \cup DOMAIN inp.deposits

\* the value self.inputs holds under a name
InputValue(inp, k) ==
    IF k \in DOMAIN inp.deposits THEN inp.deposits[k]
    ELSE IF ConfigValue(inp, k) = None THEN NoValue
    ELSE [kind |-> "path", v |-> ConfigValue(inp, k)]

\* variant: the configuration inputs are deposited like any other input
IsDeposited_config_too(inp, k) == InputValue(inp, k) # NoValue

\* lines 236-237: the inputs whose sources are copied
IsDeposited(inp, k) == k \notin input_keys /\ InputValue(inp, k) # NoValue

\* lines 220-229: the subject directory, or the exception leaving run
SinkSubjectDirectory(inp) ==
    LET subjdir ==
          IF ~Truthy(inp.subject_directory)
          THEN Join(inp.base_directory,
                    IF Truthy(inp.subject_template)
                    THEN Format(inp.subject_template, <<inp.subject_id>>)
                    ELSE inp.subject_id)
          ELSE inp.subject_directory
    IN  IF subjdir = None THEN NotProvided ELSE subjdir

\* lines 230-232
Outdir(inp) ==
    IF Truthy(inp.parameterization)
    THEN Join(SinkSubjectDirectory(inp), inp.parameterization)
    ELSE SinkSubjectDirectory(inp)

RECURSIVE JoinSegments(_, _)
\* lines 239-242: every segment not starting with '@' adds a directory level
JoinSegments(dir, segs) ==
    IF segs = << >> THEN dir
    ELSE IF Head(segs)[1] = "@" THEN JoinSegments(dir, Tail(segs))
    ELSE JoinSegments(Join(dir, Head(segs)), Tail(segs))

\* variant: only a leading '@' segment is skipped
TempOutdir_first_marker_only(outdir, k) ==
    LET segs == Split(k, ".")
        rest == IF Head(segs)[1] = "@" THEN Tail(segs) ELSE segs
    IN  JoinSegments(outdir,
                     [n \in 1..Len(rest) |->
                        IF rest[n][1] = "@" THEN Tail(rest[n]) ELSE rest[n]])

\* lines 238-242
TempOutdir(outdir, k) == JoinSegments(outdir, Split(k, "."))

\* os.path.exists, os.path.isfile, os.path.isdir
Exists(p) == p \in dirs \/ p \in files

\* the path and the directories above it
Prefixes(p) ==
    { SubSeq(p, 1, i - 1) : i \in { j \in 2..Len(p) : p[j] = Slash } } \cup {p}

\* os.makedirs(p)
MakeDirs(d, p) == d \cup Prefixes(p)

RECURSIVE RStripSlash(_)
RStripSlash(s) ==
    IF EndsWith(s, Slash) THEN RStripSlash(SubSeq(s, 1, Len(s) - 1)) ELSE s

LastSlash(p) ==
    IF \E i \in 1..Len(p) : p[i] = Slash
    THEN CHOOSE i \in 1..Len(p) :
             p[i] = Slash /\ \A j \in (i+1)..Len(p) : p[j] # Slash
    ELSE 0

\* os.path.split(p)[0]
SplitHead(p) ==
    LET head == SubSeq(p, 1, LastSlash(p))
    IN  IF RStripSlash(head) # << >> THEN RStripSlash(head) ELSE head

\* os.path.split(p)[1]
Basename(p) == SubSeq(p, LastSlash(p) + 1, Len(p))

\* nipype.utils.filemanip.copyfiles(src, dest, copy=True) with dest a
\* directory: the copy keeps the name of the source
CopyfilesDestination(src, dest) == Join(dest, Basename(src))

\* line 249
CopyDirname(src) == SplitHead(Join(src, << >>))

\* line 250
CopyNewdir(src) ==
    LET parts == Split(CopyDirname(src), Slash) IN parts[Len(parts)]

\* line 251: the destination of shutil.copytree
TreeDestination(src, dst) == Join(dst, CopyNewdir(src))

\* the paths below a copied directory, moved below its destination
Rebased(paths, dirname, dst) ==
    { dst \o SubSeq(p, Len(dirname) + 1, Len(p)) :
        p \in { q \in paths : /\ Len(q) > Len(dirname)
                              /\ SubSeq(q, 1, Len(dirname)) = dirname
                              /\ q[Len(dirname) + 1] = Slash } }

SourceFiles == { <<"/","s","r","c","/","f","1">>, <<"/","s","r","c","/","d","1","/","g">> }

SourceDirs == { <<"/">>, <<"/","s","r","c">>, <<"/","s","r","c","/","d","1">> }

\* what an input can be set to: None, one path, a list of paths
DepositValues ==
    { NoValue,
      [kind |-> "path", v |-> <<"/","s","r","c","/","d","1">>],
      [kind |-> "path", v |-> <<"/","s","r","c","/","n","o","t","h","i","n","g">>],
      [kind |-> "list", v |-> <<<<"/","s","r","c","/","d","1">>, <<"/","s","r","c","/","n","o","t","h","i","n","g">>, <<"/","s","r","c","/","f","1">>>>] }

\* key-paths: dot-separated, non-empty segments
KeyPaths == { <<"a",".","b">>, <<"a",".","@","m",".","b">>, <<"@","m",".","a">> }

DepositSpecs ==
    UNION { [ks -> DepositValues] :
              ks \in { x \in SUBSET KeyPaths : Cardinality(x) <= MaxKeys } }

SinkInputs ==
    [ base_directory    : { None, <<"/","o","u","t">> },
      parameterization  : { None, <<"p">> },
      subject_directory : { None },
      subject_template  : { None, <<"s","u","b","-","%","s">> },
      subject_id        : { <<"s","1">> },
      deposits          : DepositSpecs ]

InitSink ==
    /\ inputs \in SinkInputs
    /\ env = None
    /\ listing = << >>
    /\ globbed = [k \in {} |-> None]
    /\ outputs = NoOutputs
    /\ pc = "ready"
    /\ raised = "none"
    /\ dirs = SourceDirs
    /\ files = SourceFiles
    /\ todo = {}
    /\ srcs = << >>
    /\ k_cur = None
    /\ tempoutdir = None
    /\ copied = {}

lookupvars == <<inputs, env, listing, globbed>>

\* lines 220-229: run leaving by an exception before anything is written
SinkRaiseSubjdir ==
    /\ pc = "ready"
    /\ (IsError(Outdir(inputs)) \/ Outdir(inputs) = NotProvided)
    /\ pc' = "raised"
    /\ raised' = ErrorName(Outdir(inputs))
    /\ UNCHANGED <<lookupvars, outputs, sinkvars>>

\* lines 220-235: outdir computed and created, the loop entered
SinkStart ==
    /\ pc = "ready"
    /\ ~(IsError(Outdir(inputs)) \/ Outdir(inputs) = NotProvided)
    /\ dirs' = IF Exists(Outdir(inputs)) THEN dirs
                ELSE MakeDirs(dirs, Outdir(inputs))
    /\ todo' = InputNames(inputs)
    /\ pc' = "loop"
    /\ UNCHANGED <<lookupvars, outputs, raised, files, srcs, k_cur,
                   tempoutdir, copied>>

\* lines 235-237: an input that is a configuration input or None is passed over
SinkPassOver ==
    /\ pc = "loop"
    /\ \E k \in todo :
          /\ ~IsDeposited(inputs, k)
          /\ todo' = todo \ {k}
    /\ UNCHANGED <<lookupvars, outputs, pc, raised, dirs, files, srcs, k_cur,
                   tempoutdir, copied>>

\* lines 235-245: the destination directory of an input made, its sources listed
SinkEnterKey ==
    /\ pc = "loop"
    /\ \E k \in todo :
          /\ IsDeposited(inputs, k)
          /\ todo' = todo \ {k}
          /\ k_cur' = k
          /\ tempoutdir' = TempOutdir(Outdir(inputs), k)
          /\ dirs' = IF Exists(TempOutdir(Outdir(inputs), k)) THEN dirs
                      ELSE MakeDirs(dirs, TempOutdir(Outdir(inputs), k))
          /\ srcs' = filename_to_list(InputValue(inputs, k))
    /\ pc' = "copy"
    /\ UNCHANGED <<lookupvars, outputs, raised, files, copied>>

\* lines 246-247: a regular file copied by copyfiles into tempoutdir
SinkCopyFile ==
    /\ pc = "copy" /\ srcs # << >>
    /\ Head(srcs) \in files
    /\ files' = files \cup { CopyfilesDestination(Head(srcs), tempoutdir) }
    /\ copied' = copied \cup { [key |-> k_cur, src |-> Head(srcs),
                                 dst |-> CopyfilesDestination(Head(srcs), tempoutdir)] }
    /\ srcs' = Tail(srcs)
    /\ UNCHANGED <<lookupvars, outputs, pc, raised, dirs, todo, k_cur, tempoutdir>>

\* lines 248-251: a directory copied by shutil.copytree below tempoutdir
SinkCopyTree ==
    /\ pc = "copy" /\ srcs # << >>
    /\ Head(srcs) \notin files /\ Head(srcs) \in dirs
    /\ LET dst == TreeDestination(Head(srcs), tempoutdir)
       IN  /\ ~Exists(dst)
           /\ dirs' = MakeDirs(dirs, dst)
                         \cup Rebased(dirs, CopyDirname(Head(srcs)), dst)
           /\ files' = files \cup Rebased(files, CopyDirname(Head(srcs)), dst)
           /\ copied' = copied \cup { [key |-> k_cur, src |-> Head(srcs),
                                        dst |-> dst] }
    /\ srcs' = Tail(srcs)
    /\ UNCHANGED <<lookupvars, outputs, pc, raised, todo, k_cur, tempoutdir>>

\* variant: the failed run removes the destination directory of the key
SinkCopyTreeRaise_rollback ==
    /\ pc = "copy" /\ srcs # << >>
    /\ Head(srcs) \notin files /\ Head(srcs) \in dirs
    /\ Exists(TreeDestination(Head(srcs), tempoutdir))
    /\ pc' = "raised"
    /\ raised' = "OSError"
    /\ dirs' = { d \in dirs : ~(Len(d) >= Len(tempoutdir)
                                 /\ SubSeq(d, 1, Len(tempoutdir)) = tempoutdir) }
    /\ files' = { f \in files : ~(Len(f) >= Len(tempoutdir)
                                   /\ SubSeq(f, 1, Len(tempoutdir)) = tempoutdir) }
    /\ UNCHANGED <<lookupvars, outputs, todo, srcs, k_cur, tempoutdir, copied>>

\* line 251: shutil.copytree raising because its destination exists; nothing
\* in run catches it
SinkCopyTreeRaise ==
    /\ pc = "copy" /\ srcs # << >>
    /\ Head(srcs) \notin files /\ Head(srcs) \in dirs
    /\ Exists(TreeDestination(Head(srcs), tempoutdir))
    /\ pc' = "raised"
    /\ raised' = "OSError"
    /\ UNCHANGED <<lookupvars, outputs, sinkvars>>

\* lines 246-248: a source that is neither a file nor a directory is passed over
SinkSkipSource ==
    /\ pc = "copy" /\ srcs # << >>
    /\ Head(srcs) \notin files /\ Head(srcs) \notin dirs
    /\ srcs' = Tail(srcs)
    /\ UNCHANGED <<lookupvars, outputs, pc, raised, dirs, files, todo, k_cur,
                   tempoutdir, copied>>

\* line 245: the sources of the key exhausted, back to the loop of line 235
SinkNextKey ==
    /\ pc = "copy" /\ srcs = << >>
    /\ pc' = "loop"
    /\ UNCHANGED <<lookupvars, outputs, raised, sinkvars>>

\* lines 252-256: the loop exhausted, the result returned
SinkReturn ==
    /\ pc = "loop" /\ todo = {}
    /\ outputs' = [returned |-> TRUE, returncode |-> 0]
    /\ pc' = "done"
    /\ UNCHANGED <<lookupvars, raised, sinkvars>>

NextSink ==
    \/ SinkRaiseSubjdir \/ SinkStart \/ SinkPassOver \/ SinkEnterKey
    \/ SinkCopyFile \/ SinkCopyTree \/ SinkCopyTreeRaise \/ SinkSkipSource
    \/ SinkNextKey \/ SinkReturn

SpecSink == InitSink /\ [][NextSink]_vars

(***************************************************************************)
(* Properties of FreeSurferSource                                          *)
(***************************************************************************)
\* the key grouping of the convention table as the specification lists it
RuleMri == { <<"T","1">>, <<"a","s","e","g">>, <<"a","p","a","r","c","+","a","s","e","g">>, <<"b","r","a","i","n">>, <<"b","r","a","i","n","m","a","s","k">>,
             <<"f","i","l","l","e","d">>, <<"n","o","r","m">>, <<"n","u">>, <<"o","r","i","g">>, <<"r","a","w","a","v","g">>, <<"r","i","b","b","o","n">>,
             <<"w","m">>, <<"w","m","p","a","r","c">> }

RuleSurf == { <<"c","u","r","v">>, <<"i","n","f","l","a","t","e","d">>, <<"p","i","a","l">>, <<"s","m","o","o","t","h","w","m">>, <<"s","p","h","e","r","e">>,
              <<"s","p","h","e","r","e",".","r","e","g">>, <<"s","u","l","c">>, <<"t","h","i","c","k","n","e","s","s">>, <<"v","o","l","u","m","e">>, <<"w","h","i","t","e">> }

RuleLabel == { <<"l","a","b","e","l">>, <<"a","n","n","o","t">> }

RuleKeys == RuleMri \cup RuleSurf \cup RuleLabel

RuleDir(k) ==
    IF k \in RuleMri THEN <<"m","r","i">> ELSE IF k \in RuleSurf THEN <<"s","u","r","f">> ELSE <<"l","a","b","e","l">>

RuleSuffix(k) ==
    IF k \in RuleMri /\ k \notin RuleLabel THEN <<".","m","g","z">> ELSE << >>

HemiSensitive(k) == k = <<"r","i","b","b","o","n">> \/ k \in RuleSurf \/ k \in RuleLabel

RuleWildcard(k) == IF k \in {<<"r","i","b","b","o","n">>, <<"l","a","b","e","l">>} THEN <<"*">> ELSE <<"*","h",".">>

RuleAnnotStar(k) == IF k = <<"a","n","n","o","t">> THEN <<"*">> ELSE << >>

\* the prefix rule read as written: a supplied hemisphere prefixes every key
RulePrefixAsWritten(k, h) ==
    (IF Truthy(h) THEN h \o <<".">>
     ELSE IF HemiSensitive(k) THEN RuleWildcard(k)
     ELSE << >>) \o RuleAnnotStar(k)

\* the prefix rule with the hemisphere confined to the hemisphere-sensitive keys
RulePrefixScoped(k, h) ==
    IF HemiSensitive(k)
    THEN (IF Truthy(h) THEN h \o <<".">> ELSE RuleWildcard(k)) \o RuleAnnotStar(k)
    ELSE << >>

RuleSubjectPath ==
    (IF Truthy(inputs.subjects_dir) THEN inputs.subjects_dir ELSE env)
        \o <<"/">> \o inputs.subject_id

RulePattern(k, prefix) ==
    RuleSubjectPath \o <<"/">> \o RuleDir(k) \o <<"/">> \o prefix \o k \o RuleSuffix(k)

\* C1 as stated: for each of the 25 keys, with or without a hemisphere, the
\* pattern globbed is built from the (subdirectory, suffix, prefix) triple of
\* the rule table, the prefix being '<hemi>.' whenever a hemisphere is given.
C1_AsStated ==
    pc = "done" =>
        /\ DOMAIN globbed = RuleKeys
        /\ Cardinality(RuleKeys) = 25
        /\ \A k \in RuleKeys :
              globbed[k] = RulePattern(k, RulePrefixAsWritten(k, inputs.hemi))

\* C1 amended: the same triple, except that a supplied hemisphere gives the
\* prefix '<hemi>.' only to ribbon and to the keys of surf and label; every
\* other key has the empty prefix whether or not a hemisphere is given.
C1_TripleMatchesRule ==
    pc = "done" =>
        /\ DOMAIN globbed = RuleKeys
        /\ Cardinality(RuleKeys) = 25
        /\ \A k \in RuleKeys :
              globbed[k] = RulePattern(k, RulePrefixScoped(k, inputs.hemi))

C1_Witness ==
    /\ pc = "done"
    /\ inputs.hemi = <<"l","h">>
    /\ globbed[<<"T","1">>] = <<"/","d","a","t","a","/","s","1","/","m","r","i","/","T","1",".","m","g","z">>
    /\ globbed[<<"a","n","n","o","t">>] = <<"/","d","a","t","a","/","s","1","/","l","a","b","e","l","/","l","h",".","*","a","n","n","o","t">>
    /\ outputs[<<"r","i","b","b","o","n">>] = [kind |-> "path", v |-> <<"/","d","a","t","a","/","s","1","/","m","r","i","/","l","h",".","r","i","b","b","o","n",".","m","g","z">>]

FixtureS1 ==
    /\ pc = "done"
    /\ inputs.subjects_dir = <<"/","d","a","t","a">>
    /\ inputs.subject_id = <<"s","1">>

\* C2 as stated: with subjects_dir=/data, subject_id=s1 and no hemisphere the
\* pattern for annot is /data/s1/label/**annot and the one for ribbon is
\* /data/s1/mri/*ribbon.mgz; with hemi=lh the one for curv is /data/s1/surf/lh.curv.
C2_AsStated ==
    FixtureS1 =>
        /\ ~Truthy(inputs.hemi) =>
              /\ globbed[<<"a","n","n","o","t">>] = <<"/","d","a","t","a","/","s","1","/","l","a","b","e","l","/","*","*","a","n","n","o","t">>
              /\ globbed[<<"r","i","b","b","o","n">>] = <<"/","d","a","t","a","/","s","1","/","m","r","i","/","*","r","i","b","b","o","n",".","m","g","z">>
        /\ inputs.hemi = <<"l","h">> => globbed[<<"c","u","r","v">>] = <<"/","d","a","t","a","/","s","1","/","s","u","r","f","/","l","h",".","c","u","r","v">>

\* C2 amended: in that setting the pattern for annot is /data/s1/label/*h.*annot;
\* the patterns for ribbon and for curv with hemi=lh are as stated.
C2_EndToEndPatterns ==
    FixtureS1 =>
        /\ ~Truthy(inputs.hemi) =>
              /\ globbed[<<"a","n","n","o","t">>] = <<"/","d","a","t","a","/","s","1","/","l","a","b","e","l","/","*","h",".","*","a","n","n","o","t">>
              /\ globbed[<<"r","i","b","b","o","n">>] = <<"/","d","a","t","a","/","s","1","/","m","r","i","/","*","r","i","b","b","o","n",".","m","g","z">>
        /\ inputs.hemi = <<"l","h">> => globbed[<<"c","u","r","v">>] = <<"/","d","a","t","a","/","s","1","/","s","u","r","f","/","l","h",".","c","u","r","v">>

C2_Witness ==
    /\ FixtureS1
    /\ inputs.hemi = None
    /\ outputs[<<"a","n","n","o","t">>] =
          [kind |-> "path", v |-> <<"/","d","a","t","a","/","s","1","/","l","a","b","e","l","/","l","h",".","a","p","a","r","c",".","a","n","n","o","t">>]

Elements(seq) == { seq[i] : i \in 1..Len(seq) }

Matches(pattern) == { f \in Elements(listing) : Match(pattern, f) }

NoSubjectsDir == ~Truthy(inputs.subjects_dir) /\ ~Truthy(env)

\* what a returned FreeSurferSource result set must be: an entry per key, the
\* matches of the key's pattern under the chosen subjects_dir, absent if none
CompleteResultSet ==
    /\ DOMAIN outputs = RuleKeys
    /\ \A k \in RuleKeys :
          /\ globbed[k] = RulePattern(k, RulePrefixScoped(k, inputs.hemi))
          /\ (outputs[k] = NoValue) = (Matches(globbed[k]) = {})
          /\ Elements(PathsOf(outputs[k])) = Matches(globbed[k])
          /\ Len(PathsOf(outputs[k])) = Cardinality(Matches(globbed[k]))

\* C3 as stated: aggregate_outputs raises only when subjects_dir comes neither
\* from the input nor from the environment (the input winning when both are
\* there); with any other inputs and any filesystem it returns a result set
\* with an entry per key, the matched paths or absent.
C3_AsStated ==
    /\ pc = "raised" => NoSubjectsDir
    /\ pc = "done" => CompleteResultSet

\* C3 amended: aggregate_outputs raises only when subjects_dir is available
\* from neither source or when subject_id is unset (None); otherwise, for any
\* filesystem, it returns the complete result set.
C3_RaisesOnlyWithoutSubject ==
    /\ pc = "raised" => (NoSubjectsDir \/ inputs.subject_id = None)
    /\ (~NoSubjectsDir /\ inputs.subject_id # None) => FSReturns(inputs, env)
    /\ pc = "done" => CompleteResultSet

C3_Witness ==
    /\ pc = "done"
    /\ inputs.subjects_dir = <<"/","d","a","t","a">>
    /\ env = <<"/","e","n","v">>
    /\ <<"/","e","n","v","/","s","1","/","m","r","i","/","T","1",".","m","g","z">> \in Elements(listing)
    /\ outputs[<<"T","1">>] = NoValue
    /\ outputs[<<"c","u","r","v">>].kind = "path"

\* character codes, for the order sorted() puts paths in
Ascii == <<"%", "*", "+", "-", ".", "/", "0", "1", "2", "3", "4", "5", "6",
           "7", "8", "9", "@", "A", "B", "C", "D", "E", "F", "G", "H", "I",
           "J", "K", "L", "M", "N", "O", "P", "Q", "R", "S", "T", "U", "V",
           "W", "X", "Y", "Z", "_", "a", "b", "c", "d", "e", "f", "g", "h",
           "i", "j", "k", "l", "m", "n", "o", "p", "q", "r", "s", "t", "u",
           "v", "w", "x", "y", "z">>

Code(c) == CHOOSE i \in 1..Len(Ascii) : Ascii[i] = c

RECURSIVE StrLeq(_, _)
StrLeq(a, b) ==
    IF a = << >> THEN TRUE
    ELSE IF b = << >> THEN FALSE
    ELSE IF a[1] = b[1] THEN StrLeq(Tail(a), Tail(b))
    ELSE Code(a[1]) < Code(b[1])

IsSorted(seq) == \A i \in 1..(Len(seq) - 1) : StrLeq(seq[i], seq[i+1])

\* C6: the paths returned for a pattern are in sorted order whatever order the
\* directory enumeration has, the left-hemisphere file before the right one.
C6_ResultsSorted ==
    pc = "done" => \A k \in DOMAIN outputs : IsSorted(PathsOf(outputs[k]))


(***************************************************************************)
(* Properties of DataGrabber                                               *)
(***************************************************************************)
\* the argument values the caller supplied: the tuple's, and the named inputs
\* that are set to something non-empty
SuppliedNamed ==
    { i \in 1..Len(inputs.template_argnames) :
        inputs[inputs.template_argnames[i]] \notin {None, << >>} }

SuppliedCount == Len(inputs.template_argtuple) + Cardinality(SuppliedNamed)

\* C5 as stated: aggregate_outputs fails with a template-argument error whenever
\* the placeholders of file_template and the supplied argument values differ
\* in number, named arguments with unset values included, and never globs a
\* template with unfilled placeholders.
C5_AsStated ==
    /\ (pc # "ready" /\ Placeholders(inputs.file_template) # SuppliedCount)
          => (pc = "raised" /\ raised = "TypeError")
    /\ pc = "done" => Placeholders(globbed[file_list]) = 0

\* C5 amended: aggregate_outputs fails with a template-argument error exactly
\* when at least one argument value is supplied and their number differs from
\* the number of placeholders; when none is supplied (also when names are
\* listed but all their values are unset or empty) the template is globbed
\* verbatim, placeholders included.
C5_MismatchRaisesUnlessNoArgs ==
    LET mismatch == SuppliedCount > 0
                    /\ Placeholders(inputs.file_template) # SuppliedCount
    IN  /\ pc = "raised" => (mismatch /\ raised = "TypeError")
        /\ pc = "done" => ~mismatch
        /\ (pc = "done" /\ SuppliedCount = 0)
              => globbed[file_list] = inputs.file_template
        /\ (pc = "done" /\ SuppliedCount > 0)
              => Placeholders(globbed[file_list]) = 0

C5_Witness ==
    /\ pc = "done"
    /\ inputs.file_template = <<"/","d","/","%","s",".","n","i","i">>
    /\ inputs.template_argtuple = << >>
    /\ inputs.template_argnames = <<"arg1", "arg2">>
    /\ inputs.arg1 = None
    /\ inputs.arg2 = << >>
    /\ outputs[file_list] = [kind |-> "path", v |-> <<"/","d","/","%","s",".","n","i","i">>]


(***************************************************************************)
(* Properties of DataSource                                                *)
(***************************************************************************)
\* C4: the subject directory is join(base_directory, subject_id) without a
\* subject_template and join(base_directory, template % subject_id) with one,
\* and the computation fails with 'Subject directory not provided' whenever
\* base_directory or subject_id is absent.
C4_SubjectDirectoryOrDedicatedError ==
    /\ (pc # "ready" /\ (inputs.base_directory = None \/ inputs.subject_id = None))
          => (pc = "raised"
              /\ raised = "Exception: Subject directory not provided")
    /\ (pc = "done" /\ inputs.subject_template = None)
          => outputs.subject_directory
               = inputs.base_directory \o <<"/">> \o inputs.subject_id
    /\ (pc = "done" /\ inputs.subject_template = <<"s","u","b","-","%","s">>)
          => outputs.subject_directory
               = inputs.base_directory \o <<"/","s","u","b","-">> \o inputs.subject_id

InfoGiven == inputs.subject_info.given

InfoKeys == IF InfoGiven THEN DOMAIN inputs.subject_info.dict ELSE {}

InfoOfSubject == inputs.subject_info.dict[inputs.subject_id]

\* the glob pattern of a run identifier under a subject directory
RunPattern(subjdir, i) == subjdir \o <<"/","*">> \o i \o <<".","n","i","i">>

\* the subject directory as the inputs determine it, when they do
ExpectedSubjdir ==
    inputs.base_directory \o <<"/">>
        \o (IF inputs.subject_template = None THEN inputs.subject_id
            ELSE <<"s","u","b","-">> \o Str(inputs.subject_id))

SubjdirComputable ==
    /\ inputs.base_directory # None
    /\ (inputs.subject_id # None \/ inputs.subject_template # None)

SomeRunUnmatched ==
    \E n \in 1..Len(InfoOfSubject) :
        \E r \in 1..Len(InfoOfSubject[n].idx) :
            Matches(RunPattern(ExpectedSubjdir, InfoOfSubject[n].idx[r])) = {}

RECURSIVE InRunOrder(_, _, _)
\* paths is, run identifier after run identifier, all the matches of each
InRunOrder(paths, subjdir, idx) ==
    IF idx = << >> THEN paths = << >>
    ELSE LET m == Matches(RunPattern(subjdir, Head(idx)))
             n == Cardinality(m)
         IN  /\ n >= 1
             /\ Len(paths) >= n
             /\ Elements(SubSeq(paths, 1, n)) = m
             /\ InRunOrder(SubSeq(paths, n + 1, Len(paths)), subjdir, Tail(idx))

RECURSIVE FieldRuns(_, _)
\* the run identifiers of every tuple naming field t, in the tuples' order
FieldRuns(info, t) ==
    IF info = << >> THEN << >>
    ELSE (IF Head(info).type = t THEN Head(info).idx ELSE << >>)
         \o FieldRuns(Tail(info), t)

\* C7 as stated (lines 128-147, reached with the subject directory computed
\* and subject_info given): aggregate_outputs fails with a lookup error when
\* subject_id is no key of subject_info and with a not-found error as soon as
\* a run identifier's pattern matches no file; no output set comes back from
\* a failure; a returned output field holds, for each of its run identifiers
\* in order, at least one path.
C7_AsStated ==
    /\ (pc # "ready" /\ SubjdirComputable /\ InfoGiven
           /\ inputs.subject_id \notin InfoKeys)
          => (pc = "raised" /\ raised = "KeyError")
    /\ (pc # "ready" /\ inputs.subject_id \in InfoKeys /\ SubjdirComputable
           /\ SomeRunUnmatched)
          => (pc = "raised" /\ raised = "IOError")
    /\ pc = "raised" => outputs = NoOutputs
    /\ pc = "done" =>
          \A t \in { InfoOfSubject[n].type : n \in 1..Len(InfoOfSubject) } :
              InRunOrder(PathsOf(outputs.fields[t]),
                         outputs.subject_directory, FieldRuns(InfoOfSubject, t))

IsLastOfField(n) ==
    \A m \in (n+1)..Len(InfoOfSubject) :
        InfoOfSubject[m].type # InfoOfSubject[n].type

\* C7 amended: as stated, except that a returned output field holds the paths
\* of the run identifiers of the last subject_info tuple naming that field
\* only (at least one path for each, in run-identifier order): a later tuple
\* with the same field name replaces what an earlier one stored.
C7_LookupAndNotFound ==
    /\ (pc # "ready" /\ SubjdirComputable /\ InfoGiven
           /\ inputs.subject_id \notin InfoKeys)
          => (pc = "raised" /\ raised = "KeyError")
    /\ (pc # "ready" /\ inputs.subject_id \in InfoKeys /\ SubjdirComputable
           /\ SomeRunUnmatched)
          => (pc = "raised" /\ raised = "IOError")
    /\ pc = "raised" => outputs = NoOutputs
    /\ pc = "done" =>
          /\ DOMAIN outputs.fields
                = { InfoOfSubject[n].type : n \in 1..Len(InfoOfSubject) }
          /\ \A n \in 1..Len(InfoOfSubject) :
                IsLastOfField(n) =>
                  InRunOrder(PathsOf(outputs.fields[InfoOfSubject[n].type]),
                             outputs.subject_directory, InfoOfSubject[n].idx)

C7_Witness ==
    /\ pc = "done"
    /\ Len(InfoOfSubject) = 2
    /\ InfoOfSubject[1].type = InfoOfSubject[2].type
    /\ InfoOfSubject[1].idx = <<<<"f","5">>>>
    /\ InfoOfSubject[2].idx = <<<<"f","3">>>>
    /\ outputs.fields["func"] =
          [kind |-> "list", v |-> <<<<"/","b","/","s","1","/","a","f","3",".","n","i","i">>, <<"/","b","/","s","1","/","f","3",".","n","i","i">>>>]


(***************************************************************************)
(* Properties of DataSink                                                  *)
(***************************************************************************)
RECURSIVE DropMarked(_)
\* the segments of a key-path that do not begin with '@', in their order
DropMarked(segs) ==
    IF segs = << >> THEN << >>
    ELSE (IF Head(segs)[1] = "@" THEN << >> ELSE <<Head(segs)>>)
         \o DropMarked(Tail(segs))

RECURSIVE Nested(_, _)
Nested(dir, segs) ==
    IF segs = << >> THEN dir
    ELSE Nested(dir \o <<"/">> \o Head(segs), Tail(segs))

ExpectedOutdir ==
    inputs.base_directory \o <<"/">>
        \o (IF inputs.subject_template = None THEN inputs.subject_id
            ELSE <<"s","u","b","-">> \o inputs.subject_id)
        \o (IF inputs.parameterization = None THEN << >>
            ELSE <<"/">> \o inputs.parameterization)

ExpectedDestination(k) == Nested(ExpectedOutdir, DropMarked(Split(k, ".")))

LastSegment(p) == Split(p, "/")[Len(Split(p, "/"))]

IsBelow(d, dir) ==
    Len(d) > Len(dir) /\ SubSeq(d, 1, Len(dir) + 1) = dir \o <<"/">>

\* the deposit keys the loop has entered so far
EnteredKeys ==
    { k \in DOMAIN inputs.deposits :
        inputs.deposits[k] # NoValue /\ k \notin todo /\ pc # "ready" }

\* C8: the sources of a key-path go to outdir (subject directory, joined with
\* the parameterization if set) joined with the key-path's segments that do
\* not begin with '@', in order, wherever the marked segments stand; no
\* directory off that path is made for the key.
C8_DestinationSkipsMarkers ==
    /\ pc = "copy" =>
          (tempoutdir = ExpectedDestination(k_cur) /\ tempoutdir \in dirs)
    /\ \A c \in copied :
          c.dst = ExpectedDestination(c.key) \o <<"/">> \o LastSegment(c.src)
    /\ \A d \in dirs \ SourceDirs :
          \/ d \in Prefixes(ExpectedOutdir)
          \/ \E k \in EnteredKeys :
                \/ d \in Prefixes(ExpectedDestination(k))
                \/ \E c \in copied : c.key = k /\ (d = c.dst \/ IsBelow(d, c.dst))

C8_Witness ==
    /\ pc = "copy"
    /\ k_cur = <<"a",".","@","m",".","b">>
    /\ inputs.parameterization = <<"p">>
    /\ tempoutdir = <<"/","o","u","t","/","s","1","/","p","/","a","/","b">>
    /\ <<"/","o","u","t","/","s","1","/","p","/","a","/","b">> \in dirs
    /\ \A d \in dirs : LastSegment(d) # <<"@","m">> /\ LastSegment(d) # <<"m">>

\* C9: run rolls nothing back: a step never removes a directory, a file or a
\* copy made earlier; the step at which a copy fails changes nothing, leaves
\* the remaining sources and inputs unvisited, and is the last step of the run.
C9_NoRollback ==
    [][ /\ dirs \subseteq dirs'
        /\ files \subseteq files'
        /\ copied \subseteq copied'
        /\ pc' = "raised" => UNCHANGED <<dirs, files, copied, srcs, todo>>
        /\ pc # "raised" ]_vars

C9_Witness ==
    /\ pc = "raised"
    /\ raised = "OSError"
    /\ Head(srcs) = <<"/","s","r","c","/","d","1">>
    /\ Len(srcs) = 3
    /\ Cardinality(copied) >= 2
    /\ \E c \in copied : c.dst \in dirs
    /\ \E c \in copied : c.dst \in files
    /\ <<"/","s","r","c","/","f","1">> \in Elements(srcs)

SourcesOfKey(k) == Elements(filename_to_list(inputs.deposits[k]))

\* C10: only inputs that are none of the five configuration inputs and are
\* not None are deposited; of their sources exactly those that are a regular
\* file or a directory are copied, the others are passed over without error;
\* a run that returns reports returncode 0 whatever was skipped.
C10_CopiesExistingSourcesOnly ==
    /\ \A c \in copied :
          /\ c.key \notin input_keys
          /\ c.key \in DOMAIN inputs.deposits
          /\ inputs.deposits[c.key] # NoValue
          /\ c.src \in SourcesOfKey(c.key)
          /\ c.src \in SourceFiles \cup SourceDirs
    /\ raised = "OSError" => Head(srcs) \in SourceDirs
    /\ (pc \in {"loop", "copy"}) => raised = "none"
    /\ pc = "done" =>
          /\ outputs.returncode = 0
          /\ raised = "none"
          /\ { <<c.key, c.src>> : c \in copied }
                = { ks \in (DOMAIN inputs.deposits) \X (SourceFiles \cup SourceDirs) :
                      /\ inputs.deposits[ks[1]] # NoValue
                      /\ ks[2] \in SourcesOfKey(ks[1]) }

C10_Witness ==
    /\ pc = "done"
    /\ outputs.returncode = 0
    /\ copied = {}
    /\ \E k \in DOMAIN inputs.deposits :
          inputs.deposits[k] = [kind |-> "path", v |-> <<"/","s","r","c","/","n","o","t","h","i","n","g">>]

=============================================================================
